---- MODULE Spec2Model ----
(***************************************************************************)
(* A model of the svc worker life-cycle manager (package svc): worker      *)
(* registration, ordered initialisation, the concurrent run phase with its *)
(* error / signal / all-finished race, and the bounded termination pass.   *)
(*                                                                         *)
(* Worker names are the numbers 1..MaxWorkers.  Workers are opaque: the    *)
(* result of every Init, Run, Terminate, Alive and Healthy call is chosen  *)
(* nondeterministically when the call is made.  Time is a discrete clock.  *)
(***************************************************************************)
EXTENDS Integers, Sequences, FiniteSets, TLC

\* ---------------------------------------------------------------- bounds
MaxWorkers == 2
MaxAttempts == 2
MaxDuration == 1
MaxTime == MaxDuration + 1
MaxBlockedCallers == 1

\* ------------------------------------------------------- program constants
\* make(chan os.Signal, 3)
SignalBuffer == 3

Names == 1..MaxWorkers
NoName == 0

VARIABLES
    pc,                     \* position of the goroutine that calls AddWorker / Run
    exitCause,              \* the message of the Fatal() that ended the process, or "none"
    workers,                \* s.workers: name -> worker (its optional capabilities)
    workerInitRetryOpts,    \* s.workerInitRetryOpts: name -> retry attempts
    workersAdded,           \* s.workersAdded
    workersInitialized,     \* s.workersInitialized
    TerminationGracePeriod, \* s.TerminationGracePeriod
    TerminationWaitPeriod,  \* s.TerminationWaitPeriod
    signals,                \* s.signals: the number of signals buffered in the channel
    notified,               \* signal.Notify(s.signals, ...) has been called
    shutdownBlocked,        \* Shutdown() callers blocked in their channel send
    initIdx,                \* position of Run's init loop in workersAdded
    initState,              \* per worker: its Init call ("none", "running", "retry", "ok", "failed")
    initAttempts,           \* per worker: Init invocations of the call in progress or failed
    unit,                   \* per worker: its run unit ("idle", "running", "sending", "sendingRecovered", "done")
    unitErr,                \* per worker: the error its unit sends on errs
    wg,                     \* the run phase's sync.WaitGroup counter
    raceWinner,             \* the select case Run took ("none", "error", "signal", "finished")
    raceErr,                \* the error received from errs
    raceFrom,               \* the unit that sent it, and how its Run ended
    now,                    \* the clock
    termStart,              \* when terminateWorkers was entered
    termPasses,             \* number of times terminateWorkers was entered
    terminator,             \* terminateWorkers' goroutine ("none", "sleeping", "running", "done")
    termIdx,                \* index in workersInitialized of the next deferred Terminate (LIFO)
    termState,              \* per worker: its Terminate call ("none", "in", "ok", "err")
    response                \* the last response a probe handler wrote

vars == <<pc, exitCause, workers, workerInitRetryOpts, workersAdded, workersInitialized,
          TerminationGracePeriod, TerminationWaitPeriod, signals, notified,
          shutdownBlocked, initIdx, initState, initAttempts, unit, unitErr,
          wg, raceWinner, raceErr, raceFrom, now, termStart, termPasses, terminator, termIdx,
          termState, response>>

regVars == <<workers, workerInitRetryOpts, workersAdded>>
optVars == <<TerminationGracePeriod, TerminationWaitPeriod>>
sigVars == <<signals, notified, shutdownBlocked>>
initVars == <<initIdx, initState, initAttempts, workersInitialized>>
unitVars == <<unit, unitErr, wg>>
raceVars == <<raceWinner, raceErr, raceFrom>>
termVars == <<termStart, termPasses, terminator, termIdx, termState>>

\* ---------------------------------------------------------------- helpers
Range(s) == {s[i] : i \in 1..Len(s)}

NoDuplicates(s) == \A i, j \in 1..Len(s) : i # j => s[i] # s[j]

IsPrefix(s, t) == Len(s) <= Len(t) /\ \A i \in 1..Len(s) : s[i] = t[i]

\* An error value: the base error it wraps and the worker name its text carries.
NoErr == [name |-> NoName, base |-> "nil"]

NoUnit == [name |-> NoName, via |-> "none"]

\* The worker types: which of the optional interfaces Aliver / Healther a worker has.
Worker == [aliver : BOOLEAN, healther : BOOLEAN]

\* The worker object registered under each name: worker 1 is an Aliver only,
\* worker 2 a Healther only, worker 3 both, worker 4 neither, and so on.
WorkerOf(name) == [aliver |-> name % 2 = 1, healther |-> name % 3 # 1]

\* No probe has been answered yet.
NoResponse == [code |-> 0, body |-> <<>>]

\* New: the state after construction, options applied.
Init ==
    /\ pc = "registering"
    /\ exitCause = "none"
    /\ workers = <<>>
    /\ workerInitRetryOpts = <<>>
    /\ workersAdded = <<>>
    /\ workersInitialized = <<>>
    /\ TerminationGracePeriod \in 0..MaxDuration
    /\ TerminationWaitPeriod \in 0..MaxDuration
    /\ signals = 0
    /\ notified = FALSE
    /\ shutdownBlocked = 0
    /\ initIdx = 1
    /\ initState = [n \in Names |-> "none"]
    /\ initAttempts = [n \in Names |-> 0]
    /\ unit = [n \in Names |-> "idle"]
    /\ unitErr = [n \in Names |-> NoErr]
    /\ wg = 0
    /\ raceWinner = "none"
    /\ raceErr = NoErr
    /\ raceFrom = NoUnit
    /\ now = 0
    /\ termStart = 0
    /\ termPasses = 0
    /\ terminator = "none"
    /\ termIdx = 0
    /\ termState = [n \in Names |-> "none"]
    /\ response = NoResponse

\* zerolog's Fatal(): the event is written and os.Exit(1) ends the process, with
\* no deferred function run.
Fatal(msg) ==
    /\ pc' = "exited"
    /\ exitCause' = msg

\* ------------------------------------------------------------ registration
\* AddWorker without its duplicate check.
AddWorker_NoCheck(name, w) ==
    /\ workersAdded' = Append(workersAdded, name)
    /\ workers' = (name :> w) @@ workers
    /\ UNCHANGED <<pc, exitCause>>

\* AddWorker's effect on the registry: fatal on a duplicate name, otherwise the
\* name is appended to the ordered list and the worker stored in the mapping.
AddWorker(name, w) ==
    IF name \in DOMAIN workers
    THEN /\ Fatal("Duplicate worker names!")
         /\ UNCHANGED <<workers, workersAdded>>
    ELSE /\ workersAdded' = Append(workersAdded, name)
         /\ workers' = (name :> w) @@ workers
         /\ UNCHANGED <<pc, exitCause>>

AddWorkerCall(name, w) ==
    /\ pc = "registering"
    /\ AddWorker(name, w)
    /\ UNCHANGED workerInitRetryOpts
    /\ UNCHANGED <<optVars, response, sigVars, initVars, unitVars, raceVars, now, termVars>>

\* retryOpts is the policy's number of attempts.
AddWorkerWithInitRetry(name, w, retryOpts) ==
    /\ pc = "registering"
    /\ AddWorker(name, w)
    /\ workerInitRetryOpts' =
           IF pc' = "exited" THEN workerInitRetryOpts
           ELSE (name :> retryOpts) @@ workerInitRetryOpts
    /\ UNCHANGED <<optVars, response, sigVars, initVars, unitVars, raceVars, now, termVars>>

\* ------------------------------------------------------------ termination
\* Run's deferred function: terminateWorkers starts its goroutine and Run waits
\* in waitGroupTimeout.
terminateWorkers ==
    /\ pc' = "terminating"
    /\ termStart' = now
    /\ termPasses' = termPasses + 1
    /\ terminator' = "sleeping"
    /\ UNCHANGED <<exitCause, termIdx, termState>>

\* ------------------------------------------------------------ Run: init phase
RunStart ==
    /\ pc = "registering"
    /\ pc' = "init"
    /\ UNCHANGED <<exitCause, regVars, optVars, response, sigVars, initVars, unitVars, raceVars,
                   now, termVars>>

\* An init phase that starts the Init of any registered worker not yet initialized,
\* whatever the loop's position.
InitCall_Unordered ==
    /\ pc = "init"
    /\ \E name \in Range(workersAdded) :
        /\ initState[name] \in {"none", "retry"}
        /\ initState' = [initState EXCEPT ![name] = "running"]
        /\ initAttempts' = [initAttempts EXCEPT ![name] = @ + 1]
    /\ UNCHANGED <<pc, exitCause, regVars, optVars, response, sigVars, initIdx, workersInitialized,
                   unitVars, raceVars, now, termVars>>

\* Run invokes the Init of the worker at the init loop's position (a first attempt,
\* or retry.Do's next attempt).
InitCall ==
    /\ pc = "init"
    /\ initIdx <= Len(workersAdded)
    /\ LET name == workersAdded[initIdx] IN
        /\ initState[name] \in {"none", "retry"}
        /\ initState' = [initState EXCEPT ![name] = "running"]
        /\ initAttempts' = [initAttempts EXCEPT ![name] = @ + 1]
    /\ UNCHANGED <<pc, exitCause, regVars, optVars, response, sigVars, initIdx, workersInitialized,
                   unitVars, raceVars, now, termVars>>

\* retry.Do runs Init again while it fails and attempts are left; without a policy
\* Init is called once.
RetriesLeft(name) ==
    /\ name \in DOMAIN workerInitRetryOpts
    /\ initAttempts[name] < workerInitRetryOpts[name]

\* An init loop that logs a failed Init and goes on with the next worker.
InitReturn_Continue(name, ok) ==
    /\ pc = "init"
    /\ initState[name] = "running"
    /\ IF ok
       THEN /\ initState' = [initState EXCEPT ![name] = "ok"]
            /\ initAttempts' = [initAttempts EXCEPT ![name] = 0]
            /\ workersInitialized' = Append(workersInitialized, name)
            /\ initIdx' = initIdx + 1
       ELSE IF RetriesLeft(name)
       THEN /\ initState' = [initState EXCEPT ![name] = "retry"]
            /\ UNCHANGED <<workersInitialized, initIdx, initAttempts>>
       ELSE /\ initState' = [initState EXCEPT ![name] = "failed"]
            /\ initIdx' = initIdx + 1
            /\ UNCHANGED <<workersInitialized, initAttempts>>
    /\ UNCHANGED <<pc, exitCause, termVars>>
    /\ UNCHANGED <<regVars, optVars, response, sigVars, unitVars, raceVars, now>>

\* An init loop that records the worker as initialized whatever its Init returned.
InitReturn_AppendAlways(name, ok) ==
    /\ pc = "init"
    /\ initState[name] = "running"
    /\ IF ok
       THEN /\ initState' = [initState EXCEPT ![name] = "ok"]
            /\ initAttempts' = [initAttempts EXCEPT ![name] = 0]
            /\ workersInitialized' = Append(workersInitialized, name)
            /\ initIdx' = initIdx + 1
            /\ UNCHANGED <<pc, exitCause, termVars>>
       ELSE IF RetriesLeft(name)
       THEN /\ initState' = [initState EXCEPT ![name] = "retry"]
            /\ UNCHANGED <<pc, exitCause, workersInitialized, initIdx, initAttempts,
                           termVars>>
       ELSE /\ initState' = [initState EXCEPT ![name] = "failed"]
            /\ workersInitialized' = Append(workersInitialized, name)
            /\ terminateWorkers
            /\ UNCHANGED <<initIdx, initAttempts>>
    /\ UNCHANGED <<regVars, optVars, response, sigVars, unitVars, raceVars, now>>

InitReturn(name, ok) ==
    /\ pc = "init"
    /\ initState[name] = "running"
    /\ IF ok
       THEN /\ initState' = [initState EXCEPT ![name] = "ok"]
            /\ initAttempts' = [initAttempts EXCEPT ![name] = 0]
            /\ workersInitialized' = Append(workersInitialized, name)
            /\ initIdx' = initIdx + 1
            /\ UNCHANGED <<pc, exitCause, termVars>>
       ELSE IF RetriesLeft(name)
       THEN /\ initState' = [initState EXCEPT ![name] = "retry"]
            /\ UNCHANGED <<pc, exitCause, workersInitialized, initIdx, initAttempts,
                           termVars>>
       ELSE /\ initState' = [initState EXCEPT ![name] = "failed"]
            /\ terminateWorkers
            /\ UNCHANGED <<workersInitialized, initIdx, initAttempts>>
    /\ UNCHANGED <<regVars, optVars, response, sigVars, unitVars, raceVars, now>>

\* The init loop is over: errs and the WaitGroup are made.
InitDone ==
    /\ pc = "init"
    /\ initIdx > Len(workersAdded)
    /\ pc' = "launching"
    /\ UNCHANGED <<exitCause, regVars, optVars, response, sigVars, initVars, unitVars, raceVars,
                   now, termVars>>

\* ------------------------------------------------------------ Run: run phase
\* One iteration of the launch loop (s.workers is a map: any order): wg.Add(1) and
\* the goroutine is started.
LaunchUnit(name) ==
    /\ pc = "launching"
    /\ name \in DOMAIN workers
    /\ unit[name] = "idle"
    /\ unit' = [unit EXCEPT ![name] = "running"]
    /\ wg' = wg + 1
    /\ UNCHANGED <<pc, exitCause, regVars, optVars, response, sigVars, initVars, unitErr, raceVars,
                   now, termVars>>

\* The launch loop is over: signal.Notify, and Run blocks in its select.
EnterSelect ==
    /\ pc = "launching"
    /\ \A name \in DOMAIN workers : unit[name] # "idle"
    /\ pc' = "select"
    /\ notified' = TRUE
    /\ UNCHANGED <<exitCause, regVars, optVars, response, signals, shutdownBlocked,
                   initVars, unitVars, raceVars, now, termVars>>

\* fmt.Errorf("worker %s exited: %w", name, err): the text carries the name and the
\* error still wraps err.
WrapExit(name, err) == [name |-> name, base |-> err.base]

\* errors.Is(err, context.Canceled)
IsCanceled(err) == err.base = "context.Canceled"

\* The errors a worker can return or raise, and a panic value that is no error.
WorkerErrors == {[name |-> NoName, base |-> b] : b \in {"context.Canceled", "failure"}}

\* fmt.Errorf("%v", r) of a panic value that is no error
PanicValueErr == [name |-> NoName, base |-> "panic value"]

\* w.Run() returned nil: the deferred recoverWait calls wg.Done, recover() is nil.
RunReturnsNil(name) ==
    /\ unit[name] = "running"
    /\ unit' = [unit EXCEPT ![name] = "done"]
    /\ wg' = wg - 1
    /\ UNCHANGED unitErr

\* w.Run() returned err: the unit blocks sending the wrapped error on errs;
\* recoverWait (and its wg.Done) runs only after the send.
RunReturnsErr(name, err) ==
    /\ unit[name] = "running"
    /\ unit' = [unit EXCEPT ![name] = "sending"]
    /\ unitErr' = [unitErr EXCEPT ![name] = WrapExit(name, err)]
    /\ UNCHANGED wg

\* w.Run() panicked: recoverWait calls wg.Done first, recovers the value and blocks
\* sending it on errs (an error as it is, anything else through fmt.Errorf).
recoverWait(name, isError, err) ==
    /\ unit[name] = "running"
    /\ wg' = wg - 1
    /\ unit' = [unit EXCEPT ![name] = "sendingRecovered"]
    /\ unitErr' = [unitErr EXCEPT ![name] = IF isError THEN err ELSE PanicValueErr]

UnitStep(name) ==
    /\ pc # "exited"
    /\ \/ RunReturnsNil(name)
       \/ \E err \in WorkerErrors : RunReturnsErr(name, err)
       \/ \E err \in WorkerErrors : recoverWait(name, TRUE, err)
       \/ recoverWait(name, FALSE, NoErr)
    /\ UNCHANGED <<pc, exitCause, regVars, optVars, response, sigVars, initVars, raceVars, now,
                   termVars>>

\* The send of a unit blocked on errs completes; a unit that returned an error then
\* runs recoverWait (wg.Done).
SendCompletes(name) ==
    /\ unit' = [unit EXCEPT ![name] = "done"]
    /\ wg' = IF unit[name] = "sending" THEN wg - 1 ELSE wg
    /\ UNCHANGED unitErr

\* select, case err := <-errs
SelectErr(name) ==
    /\ pc = "select"
    /\ unit[name] \in {"sending", "sendingRecovered"}
    /\ SendCompletes(name)
    /\ raceWinner' = "error"
    /\ raceErr' = unitErr[name]
    /\ raceFrom' = [name |-> name,
                    via |-> IF unit[name] = "sending" THEN "return" ELSE "panic"]
    /\ IF ~IsCanceled(unitErr[name])
       THEN /\ Fatal("Worker Init/Run failure")
            /\ UNCHANGED termVars
       ELSE terminateWorkers
    /\ UNCHANGED <<regVars, optVars, response, sigVars, initVars, now>>

\* A receive from s.signals: one signal leaves the buffer, and the send of a
\* blocked Shutdown caller, if any, completes into the freed slot.
ReceiveSignal ==
    /\ signals > 0
    /\ signals' = IF shutdownBlocked > 0 THEN signals ELSE signals - 1
    /\ shutdownBlocked' = IF shutdownBlocked > 0 THEN shutdownBlocked - 1 ELSE 0

\* select, case sig := <-s.signals
SelectSignal ==
    /\ pc = "select"
    /\ ReceiveSignal
    /\ raceWinner' = "signal"
    /\ terminateWorkers
    /\ UNCHANGED <<regVars, optVars, response, notified, initVars, unitVars, raceErr, raceFrom, now>>

\* A wait that is over as soon as one unit has completed.
SelectFinished_AnyDone ==
    /\ pc = "select"
    /\ \E n \in DOMAIN workers : unit[n] = "done"
    /\ raceWinner' = "finished"
    /\ terminateWorkers
    /\ UNCHANGED <<regVars, optVars, response, sigVars, initVars, unitVars, raceErr, raceFrom, now>>

\* select, case <-waitGroupToChan(&wg): wg.Wait() returned
SelectFinished ==
    /\ pc = "select"
    /\ wg = 0
    /\ raceWinner' = "finished"
    /\ terminateWorkers
    /\ UNCHANGED <<regVars, optVars, response, sigVars, initVars, unitVars, raceErr, raceFrom, now>>

\* ------------------------------------------------------------ Shutdown, signals
\* s.signals <- syscall.SIGTERM: the send completes when the buffer has room and
\* blocks the caller otherwise.
Shutdown ==
    /\ pc # "exited"
    /\ shutdownBlocked < MaxBlockedCallers
    /\ IF signals < SignalBuffer
       THEN /\ signals' = signals + 1
            /\ UNCHANGED shutdownBlocked
       ELSE /\ shutdownBlocked' = shutdownBlocked + 1
            /\ UNCHANGED signals
    /\ UNCHANGED <<pc, exitCause, regVars, optVars, response, notified, initVars,
                   unitVars, raceVars, now, termVars>>

\* The signals signal.Notify relays.  Every value in the channel is one of them
\* (Shutdown sends SIGTERM) and the value received is only logged, so the channel
\* is modelled by the number of values it holds.
NotifiedSignals == {"SIGINT", "SIGTERM", "SIGHUP"}

\* The os/signal package relays a signal with a non-blocking send: it is dropped
\* when the buffer is full.  Signals are raised while Run waits in its select.
OsSignal(sig) ==
    /\ pc = "select"
    /\ notified
    /\ sig \in NotifiedSignals
    /\ signals' = IF signals < SignalBuffer THEN signals + 1 ELSE signals
    /\ UNCHANGED <<pc, exitCause, regVars, optVars, response, notified, shutdownBlocked, initVars,
                   unitVars, raceVars, now, termVars>>

\* ------------------------------------------------------------ termination pass
\* A termination pass over every registered worker.
TerminationTargets_All == workersAdded

\* "terminate only initialized workers": the list the termination goroutine ranges
\* over.
TerminationTargets == workersInitialized

\* A termination goroutine that does not sleep the wait period.
TerminatorWakes_NoSleep ==
    /\ pc # "exited"
    /\ terminator = "sleeping"
    /\ terminator' = "running"
    /\ termIdx' = Len(TerminationTargets)
    /\ UNCHANGED <<pc, exitCause, regVars, optVars, response, sigVars, initVars, unitVars, raceVars,
                   now, termStart, termPasses, termState>>

\* A goroutine that sleeps the grace period before it terminates anything.
TerminatorWakes_SleepGrace ==
    /\ pc # "exited"
    /\ terminator = "sleeping"
    /\ now >= termStart + TerminationGracePeriod
    /\ terminator' = "running"
    /\ termIdx' = Len(TerminationTargets)
    /\ UNCHANGED <<pc, exitCause, regVars, optVars, response, sigVars, initVars, unitVars, raceVars,
                   now, termStart, termPasses, termState>>

\* time.Sleep(s.TerminationWaitPeriod) is over; the loop defers one Terminate per
\* initialized worker, so they run last registered first when the function ends.
TerminatorWakes ==
    /\ pc # "exited"
    /\ terminator = "sleeping"
    /\ now >= termStart + TerminationWaitPeriod
    /\ terminator' = "running"
    /\ termIdx' = Len(TerminationTargets)
    /\ UNCHANGED <<pc, exitCause, regVars, optVars, response, sigVars, initVars, unitVars, raceVars,
                   now, termStart, termPasses, termState>>

\* The next deferred function calls w.Terminate().
TerminateCall ==
    /\ pc # "exited"
    /\ terminator = "running"
    /\ termIdx >= 1
    /\ termState[TerminationTargets[termIdx]] = "none"
    /\ termState' = [termState EXCEPT ![TerminationTargets[termIdx]] = "in"]
    /\ UNCHANGED <<pc, exitCause, regVars, optVars, response, sigVars, initVars, unitVars, raceVars,
                   now, termStart, termPasses, terminator, termIdx>>

\* A pass that gives up at the first Terminate error.
TerminateReturn_StopOnError(ok) ==
    /\ pc # "exited"
    /\ terminator = "running"
    /\ termIdx >= 1
    /\ termState[TerminationTargets[termIdx]] = "in"
    /\ termState' = [termState EXCEPT ![TerminationTargets[termIdx]] =
                                          IF ok THEN "ok" ELSE "err"]
    /\ termIdx' = IF ok THEN termIdx - 1 ELSE 0
    /\ UNCHANGED <<pc, exitCause, regVars, optVars, response, sigVars, initVars, unitVars, raceVars,
                   now, termStart, termPasses, terminator>>

\* w.Terminate() returns (nil, or an error that is logged); the next deferred
\* function is up.
TerminateReturn(ok) ==
    /\ pc # "exited"
    /\ terminator = "running"
    /\ termIdx >= 1
    /\ termState[TerminationTargets[termIdx]] = "in"
    /\ termState' = [termState EXCEPT ![TerminationTargets[termIdx]] =
                                          IF ok THEN "ok" ELSE "err"]
    /\ termIdx' = termIdx - 1
    /\ UNCHANGED <<pc, exitCause, regVars, optVars, response, sigVars, initVars, unitVars, raceVars,
                   now, termStart, termPasses, terminator>>

\* All deferred functions ran: wg.Done().
TerminatorDone ==
    /\ pc # "exited"
    /\ terminator = "running"
    /\ termIdx = 0
    /\ terminator' = "done"
    /\ UNCHANGED <<pc, exitCause, regVars, optVars, response, sigVars, initVars, unitVars, raceVars,
                   now, termStart, termPasses, termIdx, termState>>

\* A wait with no timer.
waitGroupTimeout_NoTimer == terminator = "done"

\* waitGroupTimeout: Run returns when the termination goroutine is done or when
\* time.After(s.TerminationGracePeriod) fires.
waitGroupTimeout ==
    \/ terminator = "done"
    \/ now >= termStart + TerminationGracePeriod

RunReturns ==
    /\ pc = "terminating"
    /\ waitGroupTimeout
    /\ pc' = "returned"
    /\ UNCHANGED <<exitCause, regVars, optVars, response, sigVars, initVars, unitVars, raceVars,
                   now, termVars>>

\* ------------------------------------------------------------ time
\* Time is let pass only while something waits for it: the termination goroutine's
\* sleep or waitGroupTimeout's timer.
Tick ==
    /\ pc = "terminating" \/ (pc = "returned" /\ terminator = "sleeping")
    /\ now < MaxTime
    /\ now' = now + 1
    /\ UNCHANGED <<pc, exitCause, regVars, optVars, response, sigVars, initVars, unitVars, raceVars,
                   termVars>>

\* ------------------------------------------------------------ health probes
\* The registered workers a probe reads: /live the Alivers, /ready the Healthers.
Exposing(route) ==
    {n \in DOMAIN workers :
        IF route = "/live" THEN workers[n].aliver ELSE workers[n].healther}

\* The handler's errs: one fmt.Errorf("worker %s: %s", n, err) per exposing worker
\* whose Alive / Healthy returned an error; failing is the set of workers that
\* answer with an error when asked.
ProbeErrs(route, failing) ==
    {[name |-> n, base |-> "unhealthy"] : n \in Exposing(route) \cap failing}

\* encoding/json on an error value: the JSON object of its exported fields.  The
\* error fmt.Errorf makes has none (and no MarshalJSON), so the object is empty.
JSONMarshalError(err) == {}

\* json.Marshal(map[string]interface{}{"errors": errs}): one object per error (the
\* map's iteration order decides where each error stands; here by name).
JSONMarshalErrors(errs) ==
    [errors |->
        [i \in 1..Cardinality(errs) |->
            JSONMarshalError(CHOOSE e \in errs :
                                 Cardinality({f \in errs : f.name < e.name}) = i - 1)]]

\* The /live handler's response.
LiveHandler(failing) ==
    LET errs == ProbeErrs("/live", failing) IN
    IF errs = {}
    THEN [code |-> 200, body |-> [status |-> "Still Alive!"]]
    ELSE [code |-> 503, body |-> JSONMarshalErrors(errs)]

\* The /ready handler's response: nothing is written when no error was collected
\* (net/http then answers 200 with an empty body).
ReadyHandler(failing) ==
    LET errs == ProbeErrs("/ready", failing) IN
    IF errs # {}
    THEN [code |-> 503, body |-> JSONMarshalErrors(errs)]
    ELSE [code |-> 200, body |-> <<>>]

Routes == {"/live", "/ready"}

Handler(route, failing) ==
    IF route = "/live" THEN LiveHandler(failing) ELSE ReadyHandler(failing)

\* A failing probe that also asks for a shutdown.
Probe_Shutdown(route, failing) ==
    /\ pc # "exited"
    /\ failing \subseteq Exposing(route)
    /\ response' = Handler(route, failing)
    /\ signals' = IF failing # {} /\ signals < SignalBuffer THEN signals + 1 ELSE signals
    /\ UNCHANGED <<pc, exitCause, regVars, optVars, notified, shutdownBlocked, initVars,
                   unitVars, raceVars, now, termVars>>

\* A GET on /live or /ready: the handler asks every exposing worker (failing are
\* those that answer with an error) and writes its response; it assigns no field
\* of the service.
Probe(route, failing) ==
    /\ pc # "exited"
    /\ failing \subseteq Exposing(route)
    /\ response' = Handler(route, failing)
    /\ UNCHANGED <<pc, exitCause, regVars, optVars, sigVars, initVars, unitVars, raceVars,
                   now, termVars>>

\* Timers fire when they are due and a step that waits for nothing takes no time:
\* the clock is held while Run's wait can end, while the termination goroutine's
\* sleep is over, and while that goroutine is between two calls.
TickTimed ==
    /\ Tick
    /\ ~ENABLED RunReturns
    /\ ~ENABLED TerminatorWakes
    /\ ~ENABLED TerminateCall
    /\ ~ENABLED TerminatorDone

Step ==
    \/ \E name \in Names : AddWorkerCall(name, WorkerOf(name))
    \/ \E name \in Names, retryOpts \in 2..MaxAttempts :
           AddWorkerWithInitRetry(name, WorkerOf(name), retryOpts)
    \/ RunStart
    \/ InitCall
    \/ \E name \in Names, ok \in BOOLEAN : InitReturn(name, ok)
    \/ InitDone
    \/ \E name \in Names : LaunchUnit(name)
    \/ EnterSelect
    \/ \E name \in Names : UnitStep(name)
    \/ \E name \in Names : SelectErr(name)
    \/ SelectSignal
    \/ SelectFinished
    \/ Shutdown
    \/ \E sig \in NotifiedSignals : OsSignal(sig)
    \/ TerminatorWakes
    \/ TerminateCall
    \/ \E ok \in BOOLEAN : TerminateReturn(ok)
    \/ TerminatorDone
    \/ RunReturns

Next == Step \/ Tick

\* Every interleaving, the clock bounding sleeps and timers only from below.
Spec == Init /\ [][Next]_vars

NextTimed == Step \/ TickTimed

\* The same program with timers that fire on time.
SpecTimed == Init /\ [][NextTimed]_vars

\* Timers fire on time and a Terminate call takes no time: the clock also waits
\* for a Terminate that is in progress to return.
TickPrompt ==
    /\ TickTimed
    /\ ~ENABLED TerminateReturn(TRUE)

NextPrompt == Step \/ TickPrompt

\* The program with timers that fire on time and workers whose Terminate returns
\* immediately.
SpecPrompt == Init /\ [][NextPrompt]_vars

NextProbed == NextTimed \/ \E route \in Routes, failing \in SUBSET Names : Probe(route, failing)

\* The program with its health probes requested at any point of the life cycle
\* (the handlers read no clock, so the timers are the ones that fire on time).
SpecProbed == Init /\ [][NextProbed]_vars

\* ================================================================= claims

\* C1 (as claimed): whichever terminal condition wins the run-phase race (an error
\* of any kind, a signal or Shutdown request, all units finished), the termination
\* pass is entered exactly once and the process goes on to return from Run.
C1_Claim ==
    raceWinner # "none" => (pc \in {"terminating", "returned"} /\ termPasses = 1)

\* C2 (as claimed): when the error that wins the race is a recovered panic of a
\* worker's Run, the process is not ended: the termination pass is entered.
C2_Claim ==
    raceFrom.via = "panic" => (pc \in {"terminating", "returned"} /\ termPasses = 1)

Exhausted(name) ==
    initAttempts[name] =
        IF name \in DOMAIN workerInitRetryOpts THEN workerInitRetryOpts[name] ELSE 1

\* C3: once the Init of a worker W has failed (its retry policy, if any, used up),
\* no worker registered after W has had Init invoked and no worker at all has had
\* Run invoked, in every later state of the Run invocation.
C3_InitFailureStopsStartup ==
    \A i \in 1..Len(workersAdded) :
        initState[workersAdded[i]] = "failed" =>
            /\ Exhausted(workersAdded[i])
            /\ \A j \in (i + 1)..Len(workersAdded) :
                   /\ initState[workersAdded[j]] = "none"
                   /\ initAttempts[workersAdded[j]] = 0
            /\ \A n \in Names : unit[n] = "idle"
            /\ pc \in {"terminating", "returned"}

\* C3 witness: the first of two workers, registered with a retry policy, failed;
\* Run has returned.
C3_Witness ==
    /\ pc = "returned"
    /\ Len(workersAdded) = 2
    /\ workersAdded[1] \in DOMAIN workerInitRetryOpts
    /\ initState[workersAdded[1]] = "failed"

\* Terminate and Run are invoked only on initialized workers.
OnlyInitializedAreTerminated ==
    /\ \A n \in Names : termState[n] # "none" => n \in Range(workersInitialized)
    /\ \A n \in Names : initState[n] # "ok" => (termState[n] = "none" /\ unit[n] = "idle")

\* C4 (as claimed): Terminate and Run are invoked only on initialized workers, and
\* when Run has returned after a failed Init every worker initialized before the
\* failing one has had Terminate invoked.
C4_Claim ==
    /\ OnlyInitializedAreTerminated
    /\ (pc = "returned" /\ \E n \in Names : initState[n] = "failed") =>
           \A n \in Range(workersInitialized) : termState[n] # "none"

\* C4 (amended): Terminate and Run are invoked only on initialized workers; when
\* the termination goroutine has finished, Terminate has been invoked on (and has
\* returned for) every initialized worker; and Run returns with that goroutine
\* unfinished only when the grace period has elapsed.
C4_TerminateOnlyInitialized ==
    /\ OnlyInitializedAreTerminated
    /\ terminator = "done" =>
           \A n \in Range(workersInitialized) : termState[n] \in {"ok", "err"}
    /\ (pc = "returned" /\ now < termStart + TerminationGracePeriod) =>
           terminator = "done"

\* C4 witness: A initialized, B failed, Run returned before the grace period was
\* over with A terminated and B untouched.
C4_Witness ==
    /\ pc = "returned"
    /\ now < termStart + TerminationGracePeriod
    /\ Len(workersAdded) = 2
    /\ initState[workersAdded[1]] = "ok"
    /\ initState[workersAdded[2]] = "failed"
    /\ termState[workersAdded[1]] = "ok"
    /\ termState[workersAdded[2]] = "none"
    /\ unit[workersAdded[2]] = "idle"

\* C5: Init calls follow registration order and never overlap: a worker's Init is
\* invoked only after the Init of every worker registered before it has returned
\* (successfully), and at most one Init call is in progress.
C5_InitInRegistrationOrder ==
    /\ Cardinality({n \in Names : initState[n] = "running"}) <= 1
    /\ \A i, j \in 1..Len(workersAdded) :
           (i < j /\ initState[workersAdded[j]] # "none") =>
               initState[workersAdded[i]] = "ok"
    /\ \A n \in Names : initState[n] # "none" => n \in Range(workersAdded)

\* C5 witness: the second registered worker's Init is in progress.
C5_Witness ==
    /\ Len(workersAdded) = 2
    /\ initState[workersAdded[2]] = "running"

\* C6: with timers that fire on time, Run is never still waiting in its shutdown
\* path after the grace period has passed, whatever the Terminate calls do; and a
\* Terminate call in progress ends only by returning (nothing cancels it).
C6_ShutdownBoundedByGrace ==
    /\ [](pc = "terminating" => now <= termStart + TerminationGracePeriod)
    /\ [][\A n \in Names :
              termState[n] = "in" => termState'[n] \in {"in", "ok", "err"}]_vars

\* C6 witness: grace period 0, Run has returned and a Terminate call is still in
\* progress.
C6_Witness ==
    /\ TerminationGracePeriod = 0
    /\ pc = "returned"
    /\ \E n \in Names : termState[n] = "in"

\* C7: whenever a Terminate has been invoked, at least the wait period has passed
\* since terminateWorkers began.
C7_NoTerminateBeforeWait ==
    (\E n \in Names : termState[n] # "none") =>
        /\ now >= termStart + TerminationWaitPeriod
        /\ terminator \in {"running", "done"}

\* C7 witness: a positive wait period and a Terminate call in progress, after a
\* signal won the race.
C7_Witness ==
    /\ TerminationWaitPeriod > 0
    /\ raceWinner = "signal"
    /\ \E n \in Names : termState[n] = "in"

\* C8 (as claimed): no Shutdown call ever waits.
C8_Claim == shutdownBlocked = 0

\* The names a probe's response body carries.
BodyNames(body) ==
    IF "errors" \in DOMAIN body
    THEN {f.name : f \in UNION Range(body.errors)}
    ELSE {}

\* The status half of C9: a probe answers 200 exactly when no registered worker
\* exposing its capability reports an error, and 503 otherwise.
ProbeStatus ==
    \A route \in Routes, failing \in SUBSET Names :
        LET bad == Exposing(route) \cap failing IN
        Handler(route, failing).code = IF bad = {} THEN 200 ELSE 503

\* C9 (as claimed): a probe answers 200 exactly when no registered worker exposing
\* its capability reports an error, and otherwise 503 with each failing worker's
\* name in the response.
C9_Claim ==
    \A route \in Routes, failing \in SUBSET Names :
        LET bad == Exposing(route) \cap failing
            r == Handler(route, failing) IN
        /\ r.code = 200 <=> bad = {}
        /\ bad # {} => (r.code = 503 /\ bad \subseteq BodyNames(r.body))

\* C10: the registration list has no duplicate name and holds exactly the keys of
\* the worker mapping, and while registration is open a call of AddWorker or
\* AddWorkerWithInitRetry with a registered name can only end the process.
C10_DuplicateNamesFatal ==
    /\ NoDuplicates(workersAdded)
    /\ Range(workersAdded) = DOMAIN workers
    /\ DOMAIN workerInitRetryOpts \subseteq DOMAIN workers
    /\ pc = "registering" =>
           \A name \in DOMAIN workers, w \in Worker :
               /\ ENABLED AddWorkerCall(name, w)
               /\ ~ENABLED (AddWorkerCall(name, w) /\ pc' # "exited")
               /\ ENABLED AddWorkerWithInitRetry(name, w, MaxAttempts)
               /\ ~ENABLED (AddWorkerWithInitRetry(name, w, MaxAttempts) /\ pc' # "exited")

\* C10 witness: a duplicate registration ended the process.
C10_Witness ==
    /\ pc = "exited"
    /\ exitCause = "Duplicate worker names!"
    /\ Len(workersAdded) >= 1

\* C11: at every point of a Run invocation the initialized set is the sequence of
\* the names whose Init has returned success, in registration order: a prefix of
\* the registration list without duplicates, equal to the whole list once the run
\* phase has been reached, and changed only by appending one name.
C11_InitializedSetIsSuccessPrefix ==
    /\ [](/\ IsPrefix(workersInitialized, workersAdded)
          /\ NoDuplicates(workersInitialized)
          /\ Range(workersInitialized) = {n \in Names : initState[n] = "ok"}
          /\ (pc \in {"launching", "select"} \/ raceWinner # "none") =>
                 workersInitialized = workersAdded)
    /\ [][\/ workersInitialized' = workersInitialized
          \/ \E n \in Names : workersInitialized' = Append(workersInitialized, n)]_vars

\* C11 witness: two workers registered, both initialized, Run waiting in its select.
C11_Witness ==
    /\ pc = "select"
    /\ Len(workersAdded) = 2
    /\ workersInitialized = workersAdded

\* C12: a liveness or readiness query never changes supervisor state: the step that
\* writes a probe's response, in whatever phase it is taken, leaves the worker
\* mapping, the registration list, the initialized set, the retry policies, the
\* contents of the signal channel and both durations as they were.
C12_ProbesArePure ==
    [][response' # response =>
          UNCHANGED <<workers, workersAdded, workersInitialized, workerInitRetryOpts,
                      signals, TerminationGracePeriod, TerminationWaitPeriod>>]_vars

C12_Witness ==
    /\ pc = "terminating"
    /\ terminator = "running"
    /\ response.code = 503
    /\ signals > 0
    /\ workersInitialized # <<>>


\* A unit that holds an error it has not delivered: blocked in its send on errs.
Undelivered(n) == unit[n] \in {"sending", "sendingRecovered"}

\* C13: the "all workers have finished" branch of the race is taken only when every
\* launched unit has completed with no error: Run never takes it while a unit that
\* returned an error or panicked still holds its error undelivered.
C13_Claim ==
    raceWinner = "finished" => \A n \in DOMAIN workers : ~Undelivered(n)

\* C14: shutdown leaks no run unit: a unit whose Run returned an error is blocked
\* sending it on errs only while
\* Run can still receive from it (it is launching the units or waiting in its
\* select); once a terminal condition has won the race and Run has gone on to
\* terminate and return, nothing receives from errs again, so a unit found sending
\* then never completes.
C14_Claim ==
    \A n \in DOMAIN workers : unit[n] = "sending" => pc \in {"launching", "select", "exited"}

\* C17: every error that reaches the decision point of the race identifies the
\* worker that produced it, whether the worker's Run returned it or panicked.
C17_Claim ==
    raceWinner = "error" => raceErr.name = raceFrom.name


\* C15: a worker whose Run returns nil does not by itself start shutdown: while a
\* launched unit is still running, no unit holds an error to send and no signal or
\* Shutdown request is pending, no step takes Run out of its select, decides the
\* race or invokes a Terminate.
C15_NilReturnKeepsRunning ==
    [][(/\ pc = "select"
        /\ \E n \in DOMAIN workers : unit[n] = "running"
        /\ \A n \in DOMAIN workers : ~Undelivered(n)
        /\ signals = 0
        /\ shutdownBlocked = 0)
       => /\ pc' = "select"
          /\ UNCHANGED <<raceWinner, termPasses, terminator, termState>>]_vars

\* C15 witness: one worker's Run has returned nil, the other still runs, and Run is
\* still in its select with nothing pending.
C15_Witness ==
    /\ pc = "select"
    /\ raceWinner = "none"
    /\ signals = 0
    /\ \E n \in DOMAIN workers : unit[n] = "done" /\ unitErr[n] = NoErr
    /\ \E n \in DOMAIN workers : unit[n] = "running"
    /\ \A n \in Names : termState[n] = "none"

\* C16: a Terminate that returns an error does not stop the termination pass: the
\* step on which a Terminate returns an error only moves the pass on to the next
\* worker (nothing ends the process or the pass), workers whose Terminate failed
\* exist only while Run is terminating or has returned with no Fatal, every worker
\* later in the pass than the current one has had its Terminate return, and a
\* finished pass has called Terminate on every initialized worker.
C16_TerminateErrorDoesNotStopPass ==
    /\ [](/\ (\E n \in Names : termState[n] = "err") =>
                  pc \in {"terminating", "returned"} /\ exitCause = "none"
          /\ terminator = "running" =>
                  \A i \in 1..Len(workersInitialized) :
                      (i > termIdx) = (termState[workersInitialized[i]] \in {"ok", "err"})
          /\ terminator = "done" =>
                  /\ termIdx = 0
                  /\ \A n \in Range(workersInitialized) : termState[n] \in {"ok", "err"})
    /\ [][\A n \in Names :
              (termState[n] # "err" /\ termState'[n] = "err") =>
                  /\ termIdx' = termIdx - 1
                  /\ UNCHANGED <<pc, exitCause, terminator, workersInitialized>>]_vars

\* C16 witness: the Terminate called first (last registered) returned an error,
\* the other worker was terminated all the same, and Run returned.
C16_Witness ==
    /\ pc = "returned"
    /\ exitCause = "none"
    /\ terminator = "done"
    /\ Len(workersInitialized) = 2
    /\ termState[workersInitialized[2]] = "err"
    /\ termState[workersInitialized[1]] = "ok"


\* C18: with a wait period shorter than the grace period and Terminate calls that
\* return immediately, when Run has returned the termination pass is over:
\* Terminate has been invoked on, and has returned for, every initialized worker.
\* Conversely, with a wait period not shorter than the grace period, Run is able to
\* return at the moment the grace period is over even though the termination
\* goroutine has not yet invoked Terminate on any worker.
C18_WaitWithinGrace ==
    /\ (pc = "returned" /\ TerminationWaitPeriod < TerminationGracePeriod) =>
           /\ terminator = "done"
           /\ \A n \in Range(workersInitialized) : termState[n] \in {"ok", "err"}
    /\ (/\ pc = "terminating"
        /\ TerminationWaitPeriod >= TerminationGracePeriod
        /\ now >= termStart + TerminationGracePeriod
        /\ \A n \in Names : termState[n] = "none") =>
           ENABLED RunReturns

\* C18 witness: wait period 0, grace period 1, two initialized workers, and Run has
\* returned with both terminated before the grace period was over.
C18_Witness ==
    /\ pc = "returned"
    /\ TerminationWaitPeriod < TerminationGracePeriod
    /\ now < termStart + TerminationGracePeriod
    /\ Len(workersInitialized) = 2
    /\ \A n \in Range(workersInitialized) : termState[n] \in {"ok", "err"}

\* The converse case of C18 as a state: Run has returned, the wait period is not
\* shorter than the grace period, and no initialized worker has been terminated.
C18_ReturnedBeforeAnyTerminate ==
    /\ pc = "returned"
    /\ TerminationWaitPeriod >= TerminationGracePeriod
    /\ workersInitialized # <<>>
    /\ \A n \in Names : termState[n] = "none"

====
